---- MODULE Spec2Model ----
(***************************************************************************)
(* Car-rental booking backend (server.cjs): the booking store, the         *)
(* availability check, booking creation, the payment endpoints and the     *)
(* admin lifecycle endpoints, as a state machine.                          *)
(*                                                                         *)
(* Time is counted in ticks of half an hour from a UTC midnight; a value   *)
(* of type Date is the integer number of ticks.  JavaScript `undefined`    *)
(* is NoValue for numbers and "" for strings.                              *)
(***************************************************************************)
EXTENDS Integers, Sequences, FiniteSets, TLC

VARIABLES vehicles, bookings, now, tz, notifs, reqs, last

vars == <<vehicles, bookings, now, tz, notifs, reqs, last>>

----------------------------------------------------------------------------
(* Bounds of the model *)

MaxQuantity == 2
MaxBookings == 1
MaxTransitions == 3
MaxTicks == 1
MaxInFlight == 2
MaxNotifs == 1
MaxAvailBookings == 2

----------------------------------------------------------------------------
(* Values and units *)

NoValue == -1

TicksPerHour == 2
TicksPerDay == 24 * TicksPerHour

Day(n) == n * TicksPerDay

\* the clock of the first request and the time between two readings of it
Now0 == Day(1) + 2
ClockStep == Day(1) + 1

\* offset of the server's local time from UTC, in ticks (UTC+05:30)
TzOffsets == {11}

VehicleIds == {"v1"}
GhostVehicle == "ghost"

Statuses == {"pending", "confirmed", "handed_over", "in_use", "returned",
             "completed", "cancelled", "overdue"}

PaymentStatuses == {"pending", "paid", "failed", "refunded"}

ActiveStatuses == {"confirmed", "handed_over", "in_use", "overdue"}

Truthy(n) == n # NoValue /\ n # 0

OrElse(n, d) == IF Truthy(n) THEN n ELSE d

StrOrElse(s, d) == IF s # "" THEN s ELSE d

Max(a, b) == IF a >= b THEN a ELSE b

\* Math.ceil(a / b) for b > 0
CeilDiv(a, b) == 0 - ((0 - a) \div b)

RECURSIVE SumAmounts(_)
SumAmounts(cs) ==
    IF cs = <<>> THEN 0
    ELSE OrElse(Head(cs).amount, 0) + SumAmounts(Tail(cs))

SetMax(S) == IF S = {} THEN 0 ELSE CHOOSE m \in S : \A x \in S : x <= m

----------------------------------------------------------------------------
(* Dates *)

\* date.toISOString().split('T')[0]: the UTC calendar day of an instant
ISODay(t) == t \div TicksPerDay

\* date.setHours(0, 0, 0, 0): midnight of the local calendar day
SetHoursZero(t, z) == ((t + z) \div TicksPerDay) * TicksPerDay - z

\* the instants visited by  while (cur <= to) { ...; cur.setDate(cur.getDate() + 1) }
DayWalk(from, to) ==
    IF from > to THEN {}
    ELSE { from + k * TicksPerDay : k \in 0 .. ((to - from) \div TicksPerDay) }

----------------------------------------------------------------------------
(* checkVehicleAvailability *)

BookingIds(bs) == 1 .. Len(bs)

\* a query that leaves no booking out
ExcludedNever(i, excludeBookingId) == FALSE

\* if (excludeBookingId) query._id = { $ne: excludeBookingId }
Excluded(i, excludeBookingId) == excludeBookingId # 0 /\ i = excludeBookingId

\* a filter that selects the active bookings of the vehicle whatever their dates
OverlappingBookingsUndated(bs, vehicleId, startDate, endDate, excludeBookingId) ==
    { i \in BookingIds(bs) :
        /\ bs[i].vehicleId = vehicleId
        /\ bs[i].status \in ActiveStatuses
        /\ ~ Excluded(i, excludeBookingId) }

OverlappingBookings(bs, vehicleId, startDate, endDate, excludeBookingId) ==
    { i \in BookingIds(bs) :
        /\ bs[i].vehicleId = vehicleId
        /\ bs[i].status \in ActiveStatuses
        /\ bs[i].pickupDate <= endDate
        /\ bs[i].dropoffDate >= startDate
        /\ ~ Excluded(i, excludeBookingId) }

\* the keys of dateBookings
DateKeys(startDate, endDate) == { ISODay(t) : t \in DayWalk(startDate, endDate) }

\* the keys one booking increments
BookingKeys(b, z) ==
    { ISODay(t) : t \in DayWalk(SetHoursZero(b.pickupDate, z),
                                SetHoursZero(b.dropoffDate, z)) }

\* a count that starts every day of the range at one
DateBookingsFromOne(bs, over, startDate, endDate, z) ==
    [ d \in DateKeys(startDate, endDate) |->
        Cardinality({ i \in over : d \in BookingKeys(bs[i], z) }) + 1 ]

DateBookings(bs, over, startDate, endDate, z) ==
    [ d \in DateKeys(startDate, endDate) |->
        Cardinality({ i \in over : d \in BookingKeys(bs[i], z) }) ]

\* the general path: the counts day by day and the answer from their maximum
dayByDay(quantity, bs, over, startDate, endDate, z) ==
    LET dateBookings == DateBookings(bs, over, startDate, endDate, z)
        maxConcurrentBookings ==
            SetMax({ dateBookings[d] : d \in DOMAIN dateBookings })
        availableQuantity == quantity - maxConcurrentBookings
    IN  [available |-> availableQuantity > 0,
         availableQuantity |-> Max(0, availableQuantity),
         vehicleQuantity |-> quantity,
         bookedQuantity |-> maxConcurrentBookings]

\* an availability check that takes a vehicle it does not find for a single unit
checkVehicleAvailabilityDefaulting(vs, bs, z, vehicleId, startDate, endDate, excludeBookingId) ==
    LET quantity == IF vehicleId \in DOMAIN vs THEN OrElse(vs[vehicleId].quantity, 1)
                                               ELSE 1
        over == OverlappingBookings(bs, vehicleId, startDate, endDate, excludeBookingId)
    IN  IF over = {}
        THEN [available |-> TRUE, availableQuantity |-> quantity,
              vehicleQuantity |-> quantity, bookedQuantity |-> 0]
        ELSE dayByDay(quantity, bs, over, startDate, endDate, z)

checkVehicleAvailability(vs, bs, z, vehicleId, startDate, endDate, excludeBookingId) ==
    IF vehicleId \notin DOMAIN vs
    THEN [available |-> FALSE, availableQuantity |-> 0, vehicleQuantity |-> 0,
          bookedQuantity |-> NoValue]
    ELSE
      LET quantity == OrElse(vs[vehicleId].quantity, 1)
          over == OverlappingBookings(bs, vehicleId, startDate, endDate, excludeBookingId)
      IN  IF over = {}
          THEN [available |-> TRUE, availableQuantity |-> quantity,
                vehicleQuantity |-> quantity, bookedQuantity |-> 0]
          ELSE dayByDay(quantity, bs, over, startDate, endDate, z)

----------------------------------------------------------------------------
(* Booking documents *)

HistoryEntry(status, t, charges) ==
    [status |-> status, timestamp |-> t, additionalCharges |-> charges]

\* the defaults of bookingSchema
SchemaDefaults ==
    [vehicleId |-> "", pickupDate |-> NoValue, dropoffDate |-> NoValue,
     totalDays |-> NoValue, totalAmount |-> NoValue,
     razorpayPaymentId |-> "", paymentStatus |-> "pending",
     status |-> "pending",
     notificationsSent |-> FALSE, notificationsTimestamp |-> NoValue,
     notificationsStatus |-> "pending",
     manualBooking |-> FALSE,
     refundAmount |-> 0, cancelledAt |-> NoValue,
     handoverData |-> [odometerReading |-> 0, fuelLevel |-> "full",
                       handedOverAt |-> NoValue],
     returnData |-> [odometerReading |-> 0, fuelLevel |-> "full",
                     conditionNotes |-> "", additionalCharges |-> <<>>,
                     totalAdditionalCharges |-> 0, returnedAt |-> NoValue],
     completedAt |-> NoValue,
     statusHistory |-> <<>>]

\* what a handler answers: the response, the document as the handler leaves
\* it in memory, and the entries it pushed on statusHistory
Reply(code, err, doc, push) == [code |-> code, err |-> err, doc |-> doc, push |-> push]

Reject(code, err, doc) == Reply(code, err, doc, <<>>)

\* a save that writes the whole document as the handler holds it
SaveDocWhole(cur, snap, res) ==
    [ f \in DOMAIN cur |->
        IF f = "statusHistory" THEN res.doc.statusHistory \o res.push
        ELSE res.doc[f] ]

\* booking.save() of a document read as snap and changed in memory to res.doc:
\* $set of the paths that were modified, $push of the pushed history entries
SaveDoc(cur, snap, res) ==
    [ f \in DOMAIN cur |->
        IF f = "statusHistory" THEN cur.statusHistory \o res.push
        ELSE IF res.doc[f] # snap[f] THEN res.doc[f]
        ELSE cur[f] ]

----------------------------------------------------------------------------
(* POST /api/verify-payment *)

\* verify-payment that takes the signature as given
verifyPaymentUnsigned(d, paymentId, sigValid, t) ==
    IF paymentId = "" THEN Reject(400, "All payment details are required", d)
    ELSE Reply(200, "",
               [d EXCEPT !.razorpayPaymentId = paymentId,
                         !.paymentStatus = "paid",
                         !.status = "confirmed"],
               << HistoryEntry("confirmed", t, NoValue) >>)

verifyPayment(d, paymentId, sigValid, t) ==
    IF paymentId = "" THEN Reject(400, "All payment details are required", d)
    ELSE IF sigValid
    THEN Reply(200, "",
               [d EXCEPT !.razorpayPaymentId = paymentId,
                         !.paymentStatus = "paid",
                         !.status = "confirmed"],
               << HistoryEntry("confirmed", t, NoValue) >>)
    ELSE Reject(400, "Payment verification failed", d)

(* POST /api/bookings/:id/confirm-payment *)

confirmPayment(d, paymentId, t) ==
    Reply(200, "",
          [d EXCEPT !.razorpayPaymentId = paymentId,
                    !.paymentStatus = "paid",
                    !.status = "confirmed"],
          << HistoryEntry("confirmed", t, NoValue) >>)

(* POST /api/admin/bookings/:identifier/payment *)

adminPayment(d, paymentAmount, paymentStatusIn, transactionId, t) ==
    LET paymentStatus == StrOrElse(paymentStatusIn, "paid")
    IN  IF Truthy(paymentAmount) /\ (paymentAmount > d.totalAmount \/ paymentAmount <= 0)
        THEN Reject(400, "Invalid payment amount", d)
        ELSE IF paymentStatus \notin PaymentStatuses
        THEN Reject(500, "Validation failed", d)
        ELSE LET paid == [d EXCEPT !.paymentStatus = paymentStatus,
                                   !.razorpayPaymentId = StrOrElse(transactionId, @)]
             IN  IF paymentStatus = "paid"
                 THEN Reply(200, "", [paid EXCEPT !.status = "confirmed"],
                            << HistoryEntry("confirmed", t, NoValue) >>)
                 ELSE Reply(200, "", paid, <<>>)

----------------------------------------------------------------------------
(* PUT /api/admin/bookings/:identifier/status *)

\* the table with an edge from completed back to returned
validTransitionsReopen(from) ==
    CASE from = "pending"     -> {"confirmed", "cancelled"}
      [] from = "confirmed"   -> {"handed_over", "cancelled"}
      [] from = "handed_over" -> {"in_use", "returned", "cancelled"}
      [] from = "in_use"      -> {"returned", "overdue"}
      [] from = "returned"    -> {"completed"}
      [] from = "overdue"     -> {"returned", "completed"}
      [] from = "completed"   -> {"returned"}
      [] OTHER                -> {}

validTransitions(from) ==
    CASE from = "pending"     -> {"confirmed", "cancelled"}
      [] from = "confirmed"   -> {"handed_over", "cancelled"}
      [] from = "handed_over" -> {"in_use", "returned", "cancelled"}
      [] from = "in_use"      -> {"returned", "overdue"}
      [] from = "returned"    -> {"completed"}
      [] from = "overdue"     -> {"returned", "completed"}
      [] from = "cancelled"   -> {}
      [] OTHER                -> {}

updateStatus(d, status, t) ==
    IF status = "" THEN Reject(400, "Status is required", d)
    ELSE IF status \notin validTransitions(d.status)
    THEN Reject(400, "Invalid status transition", d)
    ELSE Reply(200, "", [d EXCEPT !.status = status],
               << HistoryEntry(status, t, NoValue) >>)

(* POST /api/admin/bookings/:identifier/cancel *)

cancelBooking(d, refundAmount, t) ==
    IF d.status = "completed" \/ d.status = "cancelled"
    THEN Reject(400, "Cannot cancel booking", d)
    ELSE Reply(200, "",
               [d EXCEPT !.status = "cancelled",
                         !.refundAmount = OrElse(refundAmount, 0),
                         !.cancelledAt = t],
               << HistoryEntry("cancelled", t, NoValue) >>)

(* POST /api/admin/bookings/:identifier/handover *)

\* the handover that forgets to look at the status of an unpaid booking
handoverVehicleUnpaid(d, odometerReading, fuelLevel, t) ==
    IF d.status \notin {"confirmed", "pending"}
    THEN Reject(400, "Booking cannot be handed over", d)
    ELSE Reply(200, "",
               [d EXCEPT !.status = "handed_over",
                         !.handoverData =
                             [odometerReading |-> OrElse(odometerReading, 0),
                              fuelLevel |-> StrOrElse(fuelLevel, "full"),
                              handedOverAt |-> t]],
               << HistoryEntry("handed_over", t, NoValue) >>)

handoverVehicle(d, odometerReading, fuelLevel, t) ==
    IF d.status # "confirmed"
    THEN Reject(400, "Booking cannot be handed over", d)
    ELSE Reply(200, "",
               [d EXCEPT !.status = "handed_over",
                         !.handoverData =
                             [odometerReading |-> OrElse(odometerReading, 0),
                              fuelLevel |-> StrOrElse(fuelLevel, "full"),
                              handedOverAt |-> t]],
               << HistoryEntry("handed_over", t, NoValue) >>)

----------------------------------------------------------------------------
(* POST /api/admin/bookings/:identifier/return *)

\* String.prototype.toLowerCase on the strings the requests use
toLowerCase(s) ==
    CASE s = "Full" -> "full"
      [] s = "Half" -> "half"
      [] s = "Minor DAMAGE" -> "minor damage"
      [] OTHER -> s

\* notes.includes('damage')
includesDamage(s) == s \in {"minor damage", "damaged bumper"}

(* calculateFuelCharge *)

\* fuelPrices[level] || 0
fuelPrices(level) ==
    CASE level = "empty" -> 3000
      [] level = "quarter" -> 2250
      [] level = "half" -> 1500
      [] level = "three_quarter" -> 750
      [] level = "full" -> 0
      [] OTHER -> 0

calculateFuelCharge(startLevel, endLevel) ==
    Max(0, fuelPrices(startLevel) - fuelPrices(endLevel))

(* the fuel scale of the return handler *)

\* fuelLevels[level] || 0
\* a fuel scale that reads three quarters as a half
fuelLevelsCoarse(level) ==
    CASE level = "empty" -> 0
      [] level = "quarter" -> 25
      [] level = "half" -> 50
      [] level = "three_quarter" -> 50
      [] level = "full" -> 100
      [] OTHER -> 0

fuelLevels(level) ==
    CASE level = "empty" -> 0
      [] level = "quarter" -> 25
      [] level = "half" -> 50
      [] level = "three_quarter" -> 75
      [] level = "full" -> 100
      [] OTHER -> 0

fuelCharges(d, fuelLevel) ==
    IF fuelLevel # "" /\ d.handoverData.fuelLevel # ""
    THEN LET fuelChargePerLevel == 500
             handoverLevel == fuelLevels(toLowerCase(d.handoverData.fuelLevel))
             returnLevel == fuelLevels(toLowerCase(fuelLevel))
             fuelDifference == handoverLevel - returnLevel
         IN  IF returnLevel < handoverLevel
             THEN << [type |-> "fuel_replacement",
                      amount |-> (fuelDifference * 4 * fuelChargePerLevel) \div 100] >>
             ELSE <<>>
    ELSE <<>>

\* a late charge for the hours that have passed in full
lateChargesWholeHours(d, t) ==
    IF t > d.dropoffDate
    THEN LET hoursLate == (t - d.dropoffDate) \div TicksPerHour
             lateChargePerHour == 200
         IN  << [type |-> "late_return", amount |-> hoursLate * lateChargePerHour] >>
    ELSE <<>>

lateCharges(d, t) ==
    IF t > d.dropoffDate
    THEN LET hoursLate == CeilDiv(t - d.dropoffDate, TicksPerHour)
             lateChargePerHour == 200
         IN  << [type |-> "late_return", amount |-> hoursLate * lateChargePerHour] >>
    ELSE <<>>

kmCharges(d, odometerReading) ==
    IF Truthy(odometerReading) /\ Truthy(d.handoverData.odometerReading)
    THEN LET startOdometer == d.handoverData.odometerReading
             endOdometer == odometerReading
             allowedKms == OrElse(d.totalDays, 1) * 300
             extraKms == Max(0, endOdometer - startOdometer - allowedKms)
         IN  IF extraKms > 0
             THEN << [type |-> "extra_kilometers", amount |-> extraKms * 10] >>
             ELSE <<>>
    ELSE <<>>

damageCharges(conditionNotes) ==
    IF conditionNotes # "" /\ includesDamage(toLowerCase(conditionNotes))
    THEN << [type |-> "damage_charge", amount |-> 2000] >>
    ELSE <<>>

\* the surcharges the handler computes itself
computedCharges(d, body, t) ==
    fuelCharges(d, body.fuelLevel) \o lateCharges(d, t)
      \o kmCharges(d, body.odometerReading) \o damageCharges(body.conditionNotes)

\* the return that records the surcharges and leaves the total as it was
returnVehicleNoTotal(d, body, t) ==
    IF d.status \notin {"handed_over", "in_use", "overdue"}
    THEN Reject(400, "Booking cannot be returned", d)
    ELSE LET charges == body.additionalCharges \o computedCharges(d, body, t)
             totalAdditionalCharges ==
                 SumAmounts(body.additionalCharges)
                   + SumAmounts(computedCharges(d, body, t))
         IN  Reply(200, "",
                   [d EXCEPT !.status = "returned",
                             !.returnData =
                                 [odometerReading |-> OrElse(body.odometerReading, 0),
                                  fuelLevel |-> StrOrElse(body.fuelLevel, "full"),
                                  conditionNotes |-> StrOrElse(body.conditionNotes,
                                                               "Good condition"),
                                  additionalCharges |-> charges,
                                  totalAdditionalCharges |-> totalAdditionalCharges,
                                  returnedAt |-> t]],
                   << HistoryEntry("returned", t, totalAdditionalCharges) >>)

returnVehicle(d, body, t) ==
    IF d.status \notin {"handed_over", "in_use", "overdue"}
    THEN Reject(400, "Booking cannot be returned", d)
    ELSE LET charges == body.additionalCharges \o computedCharges(d, body, t)
             totalAdditionalCharges ==
                 SumAmounts(body.additionalCharges)
                   + SumAmounts(computedCharges(d, body, t))
         IN  Reply(200, "",
                   [d EXCEPT !.status = "returned",
                             !.returnData =
                                 [odometerReading |-> OrElse(body.odometerReading, 0),
                                  fuelLevel |-> StrOrElse(body.fuelLevel, "full"),
                                  conditionNotes |-> StrOrElse(body.conditionNotes,
                                                               "Good condition"),
                                  additionalCharges |-> charges,
                                  totalAdditionalCharges |-> totalAdditionalCharges,
                                  returnedAt |-> t],
                             !.totalAmount = OrElse(d.totalAmount, 0) + totalAdditionalCharges],
                   << HistoryEntry("returned", t, totalAdditionalCharges) >>)

(* POST /api/admin/bookings/:identifier/complete *)

\* the completion that also closes a booking whose vehicle is still out
completeBookingOut(d, t) ==
    IF d.status \notin {"returned", "handed_over", "in_use", "overdue"}
    THEN Reject(400, "Booking cannot be completed", d)
    ELSE Reply(200, "",
               [d EXCEPT !.status = "completed", !.completedAt = t],
               << HistoryEntry("completed", t, NoValue) >>)

completeBooking(d, t) ==
    IF d.status # "returned"
    THEN Reject(400, "Booking cannot be completed", d)
    ELSE Reply(200, "",
               [d EXCEPT !.status = "completed", !.completedAt = t],
               << HistoryEntry("completed", t, NoValue) >>)

\* Vehicle.findByIdAndUpdate(booking.vehicleId, { isAvailable: true })
\* a completion that also gives the unit back to the vehicle's quantity
makeVehicleAvailableReleasing(vs, vehicleId) ==
    IF vehicleId \in DOMAIN vs
    THEN [vs EXCEPT ![vehicleId].isAvailable = TRUE, ![vehicleId].quantity = @ + 1]
    ELSE vs

makeVehicleAvailable(vs, vehicleId) ==
    IF vehicleId \in DOMAIN vs
    THEN [vs EXCEPT ![vehicleId].isAvailable = TRUE]
    ELSE vs

----------------------------------------------------------------------------
(* POST /api/bookings *)

\* the answer to a creation request for which no unit is free: status 400
\* and a body that carries the quantities of the availability check
Unavailable(payload) ==
    [code |-> 400, err |-> "Vehicle not available", doc |-> SchemaDefaults,
     push |-> <<>>, body |-> payload]

\* a public creation that stores the booking as already confirmed
createBookingConfirmed(vs, bs, z, body) ==
    IF body.vehicleId \notin DOMAIN vs
    THEN Reject(404, "Vehicle not found", SchemaDefaults)
    ELSE
      LET vehicle == vs[body.vehicleId]
          startDate == SetHoursZero(body.pickupDate, z)
          endDate == SetHoursZero(body.dropoffDate, z)
          availabilityCheck ==
              checkVehicleAvailability(vs, bs, z, body.vehicleId, startDate, endDate, 0)
          durationDays == CeilDiv(endDate - startDate, TicksPerDay)
          totalAmount == vehicle.dailyRate * durationDays
      IN  IF ~ availabilityCheck.available
          THEN Unavailable([availableQuantity |-> availabilityCheck.availableQuantity,
                            vehicleQuantity |-> vehicle.quantity,
                            bookedQuantity |-> availabilityCheck.bookedQuantity])
          ELSE Reply(200, "",
                     [SchemaDefaults EXCEPT
                         !.totalDays = body.totalDays,
                         !.vehicleId = body.vehicleId,
                         !.pickupDate = startDate,
                         !.dropoffDate = endDate,
                         !.status = "confirmed",
                         !.totalAmount = totalAmount],
                     <<>>)

createBooking(vs, bs, z, body) ==
    IF body.vehicleId \notin DOMAIN vs
    THEN Reject(404, "Vehicle not found", SchemaDefaults)
    ELSE
      LET vehicle == vs[body.vehicleId]
          startDate == SetHoursZero(body.pickupDate, z)
          endDate == SetHoursZero(body.dropoffDate, z)
          availabilityCheck ==
              checkVehicleAvailability(vs, bs, z, body.vehicleId, startDate, endDate, 0)
          durationDays == CeilDiv(endDate - startDate, TicksPerDay)
          totalAmount == vehicle.dailyRate * durationDays
      IN  IF ~ availabilityCheck.available
          THEN Unavailable([availableQuantity |-> availabilityCheck.availableQuantity,
                            vehicleQuantity |-> vehicle.quantity,
                            bookedQuantity |-> availabilityCheck.bookedQuantity])
          ELSE Reply(200, "",
                     [SchemaDefaults EXCEPT
                         !.totalDays = body.totalDays,
                         !.vehicleId = body.vehicleId,
                         !.pickupDate = startDate,
                         !.dropoffDate = endDate,
                         !.status = "pending",
                         !.totalAmount = totalAmount],
                     <<>>)

(* POST /api/admin/bookings/manual *)

createManualBooking(vs, bs, z, body, t) ==
    IF body.vehicleId = "" \/ body.pickupDate = NoValue \/ body.dropoffDate = NoValue
    THEN Reject(400, "Missing required fields", SchemaDefaults)
    ELSE IF body.vehicleId \notin DOMAIN vs
    THEN Reject(404, "Vehicle not found", SchemaDefaults)
    ELSE IF body.pickupDate >= body.dropoffDate
    THEN Reject(400, "Drop-off date must be after pick-up date", SchemaDefaults)
    ELSE
      LET vehicle == vs[body.vehicleId]
          startDate == body.pickupDate
          endDate == body.dropoffDate
          availabilityCheck ==
              checkVehicleAvailability(vs, bs, z, body.vehicleId, startDate, endDate, 0)
          totalDays == CeilDiv(endDate - startDate, TicksPerDay)
          calculatedTotalAmount ==
              IF Truthy(body.totalAmount) THEN body.totalAmount
              ELSE IF Truthy(body.dailyRate) THEN body.dailyRate * totalDays
              ELSE vehicle.dailyRate * totalDays
          paymentStatus == StrOrElse(body.paymentStatus, "pending")
          status == IF paymentStatus = "paid" THEN "confirmed" ELSE "pending"
      IN  IF ~ availabilityCheck.available
          THEN Unavailable([availableQuantity |-> availabilityCheck.availableQuantity,
                            vehicleQuantity |-> vehicle.quantity])
          ELSE IF paymentStatus \notin PaymentStatuses
          THEN Reject(500, "Validation failed", SchemaDefaults)
          ELSE Reply(200, "",
                     [SchemaDefaults EXCEPT
                         !.vehicleId = body.vehicleId,
                         !.pickupDate = startDate,
                         !.dropoffDate = endDate,
                         !.totalDays = totalDays,
                         !.totalAmount = calculatedTotalAmount,
                         !.paymentStatus = paymentStatus,
                         !.manualBooking = TRUE,
                         !.status = status],
                     << HistoryEntry(status, t, NoValue) >>)

----------------------------------------------------------------------------
(* Requests *)

CreateBodies ==
    { [vehicleId |-> "v1", pickupDate |-> Day(1), dropoffDate |-> Day(2),
       totalDays |-> NoValue],
      [vehicleId |-> GhostVehicle, pickupDate |-> Day(1), dropoffDate |-> Day(2),
       totalDays |-> NoValue] }

ManualBodies ==
    { [vehicleId |-> v, pickupDate |-> Day(1), dropoffDate |-> Day(2),
       totalAmount |-> NoValue, dailyRate |-> NoValue, paymentStatus |-> p] :
         v \in VehicleIds \cup {GhostVehicle}, p \in {"", "paid"} }
    \cup
    { [vehicleId |-> "v1", pickupDate |-> Day(2), dropoffDate |-> Day(2),
       totalAmount |-> NoValue, dailyRate |-> NoValue, paymentStatus |-> ""] }

PaymentIdInputs == {"", "pay_1"}

PaymentStatusInputs == {"", "bogus"}

PaymentAmountInputs == {NoValue, 1000000}

StatusInputs == Statuses \cup {"", "archived"}

HandoverBodies ==
    { [odometerReading |-> NoValue, fuelLevel |-> ""],
      [odometerReading |-> 1000, fuelLevel |-> "Full"] }

ReturnBodies ==
    { [odometerReading |-> NoValue, fuelLevel |-> "", conditionNotes |-> "",
       additionalCharges |-> <<>>],
      [odometerReading |-> 1700, fuelLevel |-> "half",
       conditionNotes |-> "Minor DAMAGE",
       additionalCharges |-> << [type |-> "cleaning", amount |-> 300] >>] }

NotifyOutcomes == {"success", "partial", "reject"}

\* the number of status changes made to stored bookings so far
RECURSIVE TotalTransitions(_)
TotalTransitions(bs) ==
    IF bs = <<>> THEN 0
    ELSE Len(Head(bs).statusHistory) - (IF Head(bs).manualBooking THEN 1 ELSE 0)
           + TotalTransitions(Tail(bs))

MayPush(res) == res.push = <<>> \/ TotalTransitions(bookings) < MaxTransitions

NoRequest == [pc |-> "idle"]

\* the last request that wrote to the store: the handler, the booking it named,
\* the status code it answered, the status it was asked for, and the status
\* code the same handler answers on the store as it is at the time of the write
Step(op, b, code, arg, recheck) ==
    [op |-> op, b |-> b, code |-> code, arg |-> arg, recheck |-> recheck]

Init ==
    /\ vehicles \in [VehicleIds ->
                       [quantity : 1 .. MaxQuantity, dailyRate : {1000},
                        isAvailable : {FALSE}]]
    /\ bookings = <<>>
    /\ now \in { Now0 + k * ClockStep : k \in 0 .. MaxTicks }
    /\ tz \in TzOffsets
    /\ notifs = {}
    /\ reqs = [i \in 1 .. MaxInFlight |-> NoRequest]
    /\ last = Step("", 0, 0, "", 0)

----------------------------------------------------------------------------
(* The handlers, each run from its read to its write with nothing in between *)

\* a handler of one stored booking: find, check, change, save, respond;
\* a handler that rejects the request returns before it writes anything
OnBooking(op, b, res, arg) ==
    /\ MayPush(res)
    /\ bookings' = IF res.code = 200
                   THEN [bookings EXCEPT ![b] = SaveDoc(@, @, res)]
                   ELSE bookings
    /\ last' = IF res.code = 200 THEN Step(op, b, res.code, arg, res.code) ELSE last

\* a handler that stores a new document, in a store of fewer than limit bookings
\* a creation that stores the document whatever the handler answered
OnCreateAlways(op, res, limit) ==
    /\ Len(bookings) < limit
    /\ bookings' = Append(bookings, [res.doc EXCEPT !.statusHistory = res.push])
    /\ last' = Step(op, Len(bookings) + 1, 200, "", 200)

OnCreate(op, res, limit) ==
    /\ res.code = 200 => Len(bookings) < limit
    /\ bookings' = IF res.code = 200
                   THEN Append(bookings, [res.doc EXCEPT !.statusHistory = res.push])
                   ELSE bookings
    /\ last' = IF res.code = 200
               THEN Step(op, Len(bookings) + 1, res.code, "", res.code)
               ELSE last

\* notificationService.sendAllNotifications(...) is started for the saved document
\* mem is the document the handler holds, which the callback closes over
Dispatch(b, path, doc) == [b |-> b, path |-> path, mem |-> doc]

CreateBooking ==
    \E body \in CreateBodies :
        /\ OnCreate("createBooking", createBooking(vehicles, bookings, tz, body),
                    MaxBookings)
        /\ UNCHANGED <<vehicles, now, tz, notifs, reqs>>

CreateManualBooking ==
    \E body \in ManualBodies :
        /\ OnCreate("createManualBooking",
                    createManualBooking(vehicles, bookings, tz, body, now), MaxBookings)
        /\ UNCHANGED <<vehicles, now, tz, notifs, reqs>>

\* whether razorpay_signature of the request equals the HMAC of the order and
\* payment ids under the key secret
Signature(sigValid) == IF sigValid THEN "valid" ELSE "invalid"

VerifyPayment ==
    \E b \in BookingIds(bookings), paymentId \in PaymentIdInputs, sigValid \in BOOLEAN :
        LET res == verifyPayment(bookings[b], paymentId, sigValid, now)
        IN  /\ OnBooking("verifyPayment", b, res, Signature(sigValid))
            /\ res.code = 200 => Cardinality(notifs) < MaxNotifs
            /\ notifs' = IF res.code = 200
                         THEN notifs \cup {Dispatch(b, "verifyPayment", res.doc)}
                         ELSE notifs
            /\ UNCHANGED <<vehicles, now, tz, reqs>>

ConfirmPayment ==
    \E b \in BookingIds(bookings), sigValid \in BOOLEAN :
        LET res == confirmPayment(bookings[b], "pay_1", now)
        IN  /\ OnBooking("confirmPayment", b, res, Signature(sigValid))
            /\ Cardinality(notifs) < MaxNotifs
            /\ notifs' = notifs \cup {Dispatch(b, "confirmPayment", res.doc)}
            /\ UNCHANGED <<vehicles, now, tz, reqs>>

AdminPayment ==
    \E b \in BookingIds(bookings), paymentStatus \in PaymentStatusInputs,
       paymentAmount \in PaymentAmountInputs :
        /\ OnBooking("adminPayment", b,
                     adminPayment(bookings[b], paymentAmount, paymentStatus, "", now), "")
        /\ UNCHANGED <<vehicles, now, tz, notifs, reqs>>

UpdateStatus ==
    \E b \in BookingIds(bookings), status \in StatusInputs :
        /\ OnBooking("updateStatus", b, updateStatus(bookings[b], status, now), status)
        /\ UNCHANGED <<vehicles, now, tz, notifs, reqs>>

CancelBooking ==
    \E b \in BookingIds(bookings) :
        /\ OnBooking("cancelBooking", b, cancelBooking(bookings[b], NoValue, now), "")
        /\ UNCHANGED <<vehicles, now, tz, notifs, reqs>>

HandoverVehicle ==
    \E b \in BookingIds(bookings), body \in HandoverBodies :
        /\ OnBooking("handoverVehicle", b,
                     handoverVehicle(bookings[b], body.odometerReading,
                                     body.fuelLevel, now), "")
        /\ UNCHANGED <<vehicles, now, tz, notifs, reqs>>

ReturnVehicle ==
    \E b \in BookingIds(bookings), body \in ReturnBodies :
        /\ OnBooking("returnVehicle", b, returnVehicle(bookings[b], body, now), "")
        /\ UNCHANGED <<vehicles, now, tz, notifs, reqs>>

CompleteBooking ==
    \E b \in BookingIds(bookings) :
        LET res == completeBooking(bookings[b], now)
        IN  /\ OnBooking("completeBooking", b, res, "")
            /\ vehicles' = IF res.code = 200
                           THEN makeVehicleAvailable(vehicles, bookings[b].vehicleId)
                           ELSE vehicles
            /\ UNCHANGED <<now, tz, notifs, reqs>>

\* the .then / .catch callback of a dispatched notification
notificationCallback(n, outcome, t) ==
    CASE outcome = "success" ->
           [notificationsSent |-> TRUE, notificationsTimestamp |-> t,
            notificationsStatus |-> "sent"]
      [] outcome = "partial" ->
           [notificationsSent |-> TRUE, notificationsTimestamp |-> t,
            notificationsStatus |-> "partial"]
      [] outcome = "reject" /\ n.path = "verifyPayment" ->
           [n.mem EXCEPT !.notificationsSent = FALSE, !.notificationsStatus = "failed"]
      [] OTHER -> n.mem

\* a callback that also puts the booking back to unpaid when the notification
\* was not delivered
WithNotificationRollback(d, m) ==
    [d EXCEPT !.notificationsSent = m.notificationsSent,
              !.notificationsTimestamp = m.notificationsTimestamp,
              !.notificationsStatus = m.notificationsStatus,
              !.status = IF m.notificationsStatus = "failed" THEN "pending" ELSE @,
              !.paymentStatus = IF m.notificationsStatus = "failed" THEN "pending" ELSE @]

WithNotification(d, m) ==
    [d EXCEPT !.notificationsSent = m.notificationsSent,
              !.notificationsTimestamp = m.notificationsTimestamp,
              !.notificationsStatus = m.notificationsStatus]

NotificationDone ==
    \E n \in notifs, outcome \in NotifyOutcomes :
        /\ notifs' = notifs \ {n}
        /\ bookings' =
              [bookings EXCEPT ![n.b] =
                  SaveDoc(@, n.mem,
                          Reply(200, "",
                                WithNotification(n.mem,
                                                 notificationCallback(n, outcome, now)),
                                <<>>))]
        /\ last' = Step("notificationDone", n.b, 0, outcome, 0)
        /\ UNCHANGED <<vehicles, now, tz, reqs>>

Next ==
    \/ CreateBooking
    \/ CreateManualBooking
    \/ VerifyPayment
    \/ ConfirmPayment
    \/ AdminPayment
    \/ UpdateStatus
    \/ CancelBooking
    \/ HandoverVehicle
    \/ ReturnVehicle
    \/ CompleteBooking
    \/ NotificationDone

Spec == Init /\ [][Next]_vars

----------------------------------------------------------------------------
(* The reservation path on a store of one booking more than a vehicle has    *)
(* units: creation, the payment endpoints and cancellation                   *)

CreateBookingOver ==
    \E body \in CreateBodies :
        /\ OnCreate("createBooking", createBooking(vehicles, bookings, tz, body),
                    MaxBookings + 1)
        /\ UNCHANGED <<vehicles, now, tz, notifs, reqs>>

CreateManualBookingOver ==
    \E body \in ManualBodies :
        /\ OnCreate("createManualBooking",
                    createManualBooking(vehicles, bookings, tz, body, now),
                    MaxBookings + 1)
        /\ UNCHANGED <<vehicles, now, tz, notifs, reqs>>

NextCap ==
    \/ CreateBookingOver
    \/ CreateManualBookingOver
    \/ VerifyPayment
    \/ ConfirmPayment
    \/ AdminPayment
    \/ CancelBooking
    \/ NotificationDone

SpecCap == Init /\ [][NextCap]_vars

----------------------------------------------------------------------------
(* Requests in flight: a handler reads the store, checks and changes its     *)
(* document in memory, and writes it at its await booking.save(); the        *)
(* requests of other clients run between the read and the write              *)

CancelBodies == { [refundAmount |-> NoValue] }

StatusBodies == { [status |-> st] : st \in StatusInputs }

BodiesOf(op) ==
    CASE op = "createBooking" -> CreateBodies
      [] op = "createManualBooking" -> ManualBodies
      [] op = "handoverVehicle" -> HandoverBodies
      [] op = "returnVehicle" -> ReturnBodies
      [] op = "cancelBooking" -> CancelBodies
      [] op = "updateStatus" -> StatusBodies
      [] op = "completeBooking" -> { [finalNotes |-> ""] }

CreateOps == {"createBooking", "createManualBooking"}

InFlightOps == CreateOps \cup {"handoverVehicle", "returnVehicle",
                                "cancelBooking", "updateStatus", "completeBooking"}

\* the answer of handler op on the store as it is now
Handle(op, b, body) ==
    CASE op = "createBooking" -> createBooking(vehicles, bookings, tz, body)
      [] op = "createManualBooking" ->
           createManualBooking(vehicles, bookings, tz, body, now)
      [] op = "handoverVehicle" ->
           handoverVehicle(bookings[b], body.odometerReading, body.fuelLevel, now)
      [] op = "returnVehicle" -> returnVehicle(bookings[b], body, now)
      [] op = "cancelBooking" -> cancelBooking(bookings[b], body.refundAmount, now)
      [] op = "updateStatus" -> updateStatus(bookings[b], body.status, now)
      [] op = "completeBooking" -> completeBooking(bookings[b], now)

Saving == { i \in DOMAIN reqs : reqs[i].pc = "saving" }

\* status changes made or about to be written
Budget == TotalTransitions(bookings)
            + Cardinality({ i \in Saving : reqs[i].b # 0 })

\* the handler runs up to its await booking.save()
BeginRequest ==
    \E i \in DOMAIN reqs, op \in InFlightOps :
      \E b \in (IF op \in CreateOps THEN {0} ELSE BookingIds(bookings)),
         body \in BodiesOf(op) :
        LET res == Handle(op, b, body)
        IN  /\ reqs[i].pc = "idle"
            /\ \A j \in DOMAIN reqs : j < i => reqs[j].pc # "idle"
            /\ res.code = 200
            /\ b # 0 => Budget < MaxTransitions
            /\ b = 0 => Len(bookings) + Cardinality({ j \in Saving : reqs[j].b = 0 })
                          < MaxBookings + 1
            /\ reqs' = [reqs EXCEPT ![i] =
                          [pc |-> "saving", op |-> op, b |-> b, body |-> body,
                           snap |-> IF b = 0 THEN SchemaDefaults ELSE bookings[b],
                           res |-> res]]
            /\ UNCHANGED <<vehicles, bookings, now, tz, notifs, last>>

\* booking.save() and what the handler does after it
SaveRequest ==
    \E i \in Saving :
        LET r == reqs[i]
        IN  /\ bookings' =
                  IF r.b = 0
                  THEN Append(bookings, [r.res.doc EXCEPT !.statusHistory = r.res.push])
                  ELSE [bookings EXCEPT ![r.b] = SaveDoc(@, r.snap, r.res)]
            /\ vehicles' = IF r.op = "completeBooking"
                           THEN makeVehicleAvailable(vehicles, r.snap.vehicleId)
                           ELSE vehicles
            /\ last' = Step(r.op, IF r.b = 0 THEN Len(bookings) + 1 ELSE r.b, 200,
                            IF r.op = "updateStatus" THEN r.body.status ELSE "",
                            Handle(r.op, r.b, r.body).code)
            /\ reqs' = [reqs EXCEPT ![i] = NoRequest]
            /\ UNCHANGED <<now, tz, notifs>>

NextConc ==
    \/ BeginRequest
    \/ SaveRequest

SpecConc == Init /\ [][NextConc]_vars

----------------------------------------------------------------------------
(* Requests in flight while the clock of the server advances: the handler    *)
(* takes new Date() for its history entry before its await booking.save()    *)

Tick ==
    /\ now < Now0 + MaxTicks * ClockStep
    /\ now' = now + ClockStep
    /\ UNCHANGED <<vehicles, bookings, tz, notifs, reqs, last>>

NextClock ==
    \/ BeginRequest
    \/ SaveRequest
    \/ Tick

SpecClock == Init /\ [][NextClock]_vars

----------------------------------------------------------------------------
(* checkVehicleAvailability on a stored set of bookings of every status, as  *)
(* the availability endpoints and the creation handlers call it              *)

\* dates as the requests carry them: 'YYYY-MM-DD', parsed as midnight UTC
AvailDates == { Day(n) : n \in 1 .. 3 }

AvailStatuses == {"pending", "confirmed", "cancelled", "overdue"}

\* the server runs in UTC or in the local zone of the business
AvailTzOffsets == {0, 11}

AvailBookings ==
    { [SchemaDefaults EXCEPT !.vehicleId = "v1", !.status = st,
                             !.pickupDate = r[1], !.dropoffDate = r[2]] :
        st \in AvailStatuses,
        r \in { x \in AvailDates \X AvailDates : x[1] <= x[2] } }

RECURSIVE StoresUpTo(_)
StoresUpTo(n) ==
    IF n = 0 THEN { <<>> }
    ELSE StoresUpTo(n - 1)
           \cup { Append(bs, d) : bs \in { x \in StoresUpTo(n - 1) : Len(x) = n - 1 },
                                  d \in AvailBookings }

\* the answer of the availability query of a behaviour and its arguments
Query(vehicleId, startDate, endDate, excludeBookingId, result) ==
    [op |-> "checkVehicleAvailability", vehicleId |-> vehicleId,
     startDate |-> startDate, endDate |-> endDate,
     excludeBookingId |-> excludeBookingId, result |-> result]

InitAvail ==
    /\ vehicles \in [VehicleIds ->
                       [quantity : 1 .. MaxQuantity, dailyRate : {1000},
                        isAvailable : BOOLEAN]]
    /\ bookings \in StoresUpTo(MaxAvailBookings)
    /\ now = Now0
    /\ tz \in AvailTzOffsets
    /\ notifs = {}
    /\ reqs = [i \in 1 .. MaxInFlight |-> NoRequest]
    /\ last = Step("", 0, 0, "", 0)

\* an availability check that holds a unit back for the caller it answered
CheckAvailabilityReserving ==
    \E vehicleId \in VehicleIds \cup {GhostVehicle},
       startDate \in AvailDates, endDate \in AvailDates,
       excludeBookingId \in 0 .. Len(bookings) :
        LET result == checkVehicleAvailability(vehicles, bookings, tz, vehicleId,
                                               startDate, endDate, excludeBookingId)
        IN  /\ last.op = ""
            /\ startDate <= endDate
            /\ last' = Query(vehicleId, startDate, endDate, excludeBookingId, result)
            /\ vehicles' = IF result.available /\ vehicles[vehicleId].quantity > 1
                           THEN [vehicles EXCEPT ![vehicleId].quantity = @ - 1]
                           ELSE vehicles
            /\ UNCHANGED <<bookings, now, tz, notifs, reqs>>

CheckAvailability ==
    \E vehicleId \in VehicleIds \cup {GhostVehicle},
       startDate \in AvailDates, endDate \in AvailDates,
       excludeBookingId \in 0 .. Len(bookings) :
        /\ last.op = ""
        /\ startDate <= endDate
        /\ last' = Query(vehicleId, startDate, endDate, excludeBookingId,
                         checkVehicleAvailability(vehicles, bookings, tz, vehicleId,
                                                  startDate, endDate, excludeBookingId))
        /\ UNCHANGED <<vehicles, bookings, now, tz, notifs, reqs>>

\* checkVehicleAvailability of the bookings router (routes of part_001): the
\* bookings of the vehicle that overlap the range and are confirmed or pending
routerCheckVehicleAvailability(bs, vehicleId, pickupDate, dropoffDate) ==
    LET overlappingBookings ==
            { i \in BookingIds(bs) :
                /\ bs[i].vehicleId = vehicleId
                /\ bs[i].pickupDate <= dropoffDate
                /\ bs[i].dropoffDate >= pickupDate
                /\ bs[i].status \in {"confirmed", "pending"} }
    IN  [isAvailable |-> overlappingBookings = {},
         conflictingDates |-> { <<bs[i].pickupDate, bs[i].dropoffDate>> :
                                  i \in overlappingBookings }]

\* POST /check-availability of the bookings router
RouterCheckAvailability ==
    \E vehicleId \in VehicleIds, pickupDate \in AvailDates, dropoffDate \in AvailDates :
        /\ last.op = ""
        /\ pickupDate <= dropoffDate
        /\ last' = [op |-> "routerCheckAvailability", vehicleId |-> vehicleId,
                    startDate |-> pickupDate, endDate |-> dropoffDate,
                    excludeBookingId |-> 0,
                    result |-> routerCheckVehicleAvailability(bookings, vehicleId,
                                                              pickupDate, dropoffDate)]
        /\ UNCHANGED <<vehicles, bookings, now, tz, notifs, reqs>>

\* the vehicles the fleet listings keep: isAvailable, and named by no booking
\* that overlaps the range and is confirmed, handed_over or in_use
listedVehicles(vs, bs, startDate, endDate) ==
    LET overlappingBookings ==
            { i \in BookingIds(bs) :
                /\ bs[i].pickupDate <= endDate
                /\ bs[i].dropoffDate >= startDate
                /\ bs[i].status \in {"confirmed", "handed_over", "in_use"} }
        bookedVehicleIds == { bs[i].vehicleId : i \in overlappingBookings }
    IN  { v \in DOMAIN vs : vs[v].isAvailable /\ v \notin bookedVehicleIds }

\* GET /api/vehicles/available?pickupDate=..&dropoffDate=..
getAvailableVehicles(vs, bs, startDate, endDate) ==
    IF startDate >= endDate
    THEN [code |-> 400, data |-> {}]
    ELSE [code |-> 200, data |-> listedVehicles(vs, bs, startDate, endDate)]

\* POST /api/vehicles/availability
postVehiclesAvailability(vs, bs, startDate, endDate, t) ==
    IF startDate >= endDate \/ startDate < t
    THEN [code |-> 400, data |-> {}]
    ELSE [code |-> 200, data |-> listedVehicles(vs, bs, startDate, endDate)]

GetAvailableVehicles ==
    \E startDate \in AvailDates, endDate \in AvailDates :
        /\ last.op = ""
        /\ last' = [op |-> "getAvailableVehicles", vehicleId |-> "",
                    startDate |-> startDate, endDate |-> endDate,
                    excludeBookingId |-> 0,
                    result |-> getAvailableVehicles(vehicles, bookings,
                                                    startDate, endDate)]
        /\ UNCHANGED <<vehicles, bookings, now, tz, notifs, reqs>>

PostVehiclesAvailability ==
    \E startDate \in AvailDates, endDate \in AvailDates :
        /\ last.op = ""
        /\ last' = [op |-> "postVehiclesAvailability", vehicleId |-> "",
                    startDate |-> startDate, endDate |-> endDate,
                    excludeBookingId |-> 0,
                    result |-> postVehiclesAvailability(vehicles, bookings,
                                                        startDate, endDate, now)]
        /\ UNCHANGED <<vehicles, bookings, now, tz, notifs, reqs>>

NextAvail ==
    \/ CheckAvailability
    \/ RouterCheckAvailability
    \/ GetAvailableVehicles
    \/ PostVehiclesAvailability

SpecAvail == InitAvail /\ [][NextAvail]_vars

----------------------------------------------------------------------------
(* Booking creation with every order of the two dates of the request         *)

DateInputs == { Day(n) : n \in 1 .. 3 }

CreateBookingDated ==
    \E pickupDate \in DateInputs, dropoffDate \in DateInputs :
        /\ OnCreate("createBooking",
                    createBooking(vehicles, bookings, tz,
                                  [vehicleId |-> "v1", pickupDate |-> pickupDate,
                                   dropoffDate |-> dropoffDate, totalDays |-> NoValue]),
                    MaxBookings + 1)
        /\ UNCHANGED <<vehicles, now, tz, notifs, reqs>>

CreateManualBookingDated ==
    \E pickupDate \in DateInputs, dropoffDate \in DateInputs,
       paymentStatus \in {"", "paid"} :
        /\ OnCreate("createManualBooking",
                    createManualBooking(vehicles, bookings, tz,
                                        [vehicleId |-> "v1", pickupDate |-> pickupDate,
                                         dropoffDate |-> dropoffDate,
                                         totalAmount |-> NoValue, dailyRate |-> NoValue,
                                         paymentStatus |-> paymentStatus], now),
                    MaxBookings + 1)
        /\ UNCHANGED <<vehicles, now, tz, notifs, reqs>>

NextDates ==
    \/ CreateBookingDated
    \/ CreateManualBookingDated

SpecDates == Init /\ [][NextDates]_vars

----------------------------------------------------------------------------
(* The return of one vehicle: a booking is created, confirmed and handed    *)
(* over, time passes, and the vehicle comes back, with every fuel level,     *)
(* odometer reading and return time of the surcharge rules                   *)

FuelLevelInputs == {"empty", "quarter", "half", "three_quarter", "full"}

\* the offsets of the return from the dropoff date of the booking, in ticks
LateTicks == {-1, 0, 1, 3}

ReturnCreateBodies ==
    { [vehicleId |-> "v1", pickupDate |-> Day(1), dropoffDate |-> dropoffDate,
       totalDays |-> totalDays] :
        dropoffDate \in {Day(2), Day(3)}, totalDays \in {NoValue, 2} }

ReturnManualBodies ==
    { [vehicleId |-> "v1", pickupDate |-> Day(1), dropoffDate |-> dropoffDate,
       totalAmount |-> NoValue, dailyRate |-> NoValue, paymentStatus |-> "paid"] :
        dropoffDate \in {Day(2), Day(3)} }

ReturnHandoverBodies ==
    [odometerReading : {NoValue, 1000}, fuelLevel : FuelLevelInputs \cup {""}]

ReturnReturnBodies ==
    [odometerReading : {NoValue, 1200, 1500, 1700},
     fuelLevel : FuelLevelInputs \cup {""},
     conditionNotes : {"", "Minor DAMAGE"},
     additionalCharges : {<<>>, << [type |-> "cleaning", amount |-> 300] >>}]

CreateBookingToReturn ==
    \E body \in ReturnCreateBodies :
        /\ OnCreate("createBooking", createBooking(vehicles, bookings, tz, body), 1)
        /\ UNCHANGED <<vehicles, now, tz, notifs, reqs>>

CreateManualBookingToReturn ==
    \E body \in ReturnManualBodies :
        /\ OnCreate("createManualBooking",
                    createManualBooking(vehicles, bookings, tz, body, now), 1)
        /\ UNCHANGED <<vehicles, now, tz, notifs, reqs>>

ConfirmToReturn ==
    \E b \in BookingIds(bookings) :
        /\ OnBooking("updateStatus", b, updateStatus(bookings[b], "confirmed", now),
                     "confirmed")
        /\ UNCHANGED <<vehicles, now, tz, notifs, reqs>>

HandoverToReturn ==
    \E b \in BookingIds(bookings), body \in ReturnHandoverBodies :
        /\ OnBooking("handoverVehicle", b,
                     handoverVehicle(bookings[b], body.odometerReading,
                                     body.fuelLevel, now), "")
        /\ UNCHANGED <<vehicles, now, tz, notifs, reqs>>

\* the time that passes while the vehicle is out
ReturnClock ==
    \E b \in BookingIds(bookings), k \in LateTicks :
        /\ bookings[b].status = "handed_over"
        /\ bookings[b].dropoffDate + k > now
        /\ now' = bookings[b].dropoffDate + k
        /\ UNCHANGED <<vehicles, bookings, tz, notifs, reqs, last>>

ReturnVehicleCharged ==
    \E b \in BookingIds(bookings), body \in ReturnReturnBodies :
        /\ OnBooking("returnVehicle", b, returnVehicle(bookings[b], body, now), body)
        /\ UNCHANGED <<vehicles, now, tz, notifs, reqs>>

NextReturn ==
    \/ CreateBookingToReturn
    \/ CreateManualBookingToReturn
    \/ ConfirmToReturn
    \/ HandoverToReturn
    \/ ReturnClock
    \/ ReturnVehicleCharged

SpecReturn == Init /\ [][NextReturn]_vars

----------------------------------------------------------------------------
(* GET /api/vehicles/:vehicleId/availability: the dates of the query string  *)
(* go to checkVehicleAvailability as instants, with their time of day        *)

\* 00:00, 10:00 and 01:00 of the days of the queries, in UTC
QueryInstants ==
    { Day(1), Day(1) + 10 * TicksPerHour, Day(2) + TicksPerHour,
      Day(2) + 10 * TicksPerHour, Day(3) + TicksPerHour }

\* the stores of no booking and of one booking
InstantStores == { <<>> } \cup { << d >> : d \in AvailBookings }

InitInstants ==
    /\ vehicles \in [VehicleIds ->
                       [quantity : 1 .. MaxQuantity, dailyRate : {1000},
                        isAvailable : {TRUE}]]
    /\ bookings \in InstantStores
    /\ now = Now0
    /\ tz \in AvailTzOffsets
    /\ notifs = {}
    /\ reqs = [i \in 1 .. MaxInFlight |-> NoRequest]
    /\ last = Step("", 0, 0, "", 0)

GetVehicleAvailability ==
    \E vehicleId \in VehicleIds, startDate \in QueryInstants, endDate \in QueryInstants :
        /\ last.op = ""
        /\ startDate <= endDate
        /\ last' = [op |-> "getVehicleAvailability", vehicleId |-> vehicleId,
                    startDate |-> startDate, endDate |-> endDate,
                    excludeBookingId |-> 0,
                    result |-> checkVehicleAvailability(vehicles, bookings, tz, vehicleId,
                                                        startDate, endDate, 0)]
        /\ UNCHANGED <<vehicles, bookings, now, tz, notifs, reqs>>

NextInstants == GetVehicleAvailability

SpecInstants == InitInstants /\ [][NextInstants]_vars

----------------------------------------------------------------------------
(* POST /api/admin/bookings/:identifier/return: the additionalCharges of the *)
(* request body are taken as they come                                       *)

\* bodies whose charges carry amounts of either sign
AcceptedReturnBodies ==
    [odometerReading : {NoValue, 1500},
     fuelLevel : {"", "half"},
     conditionNotes : {"", "Minor DAMAGE"},
     additionalCharges : {<<>>,
                          << [type |-> "cleaning", amount |-> 300] >>,
                          << [type |-> "goodwill", amount |-> -500] >>,
                          << [type |-> "cleaning", amount |-> 300],
                             [type |-> "goodwill", amount |-> -500] >>}]

ReturnVehicleAccepted ==
    \E b \in BookingIds(bookings), body \in AcceptedReturnBodies :
        /\ OnBooking("returnVehicle", b, returnVehicle(bookings[b], body, now), body)
        /\ UNCHANGED <<vehicles, now, tz, notifs, reqs>>

NextAccepted ==
    \/ CreateManualBookingToReturn
    \/ HandoverToReturn
    \/ ReturnClock
    \/ ReturnVehicleAccepted

SpecAccepted == Init /\ [][NextAccepted]_vars

----------------------------------------------------------------------------
(* A booking from its creation through handover, return and payment, over    *)
(* twice the transitions of the other specifications                         *)

\* findBooking, the handler's checks and changes, booking.save()
OnBookingLifetime(op, b, res, arg) ==
    /\ res.push = <<>> \/ TotalTransitions(bookings) < 2 * MaxTransitions
    /\ res.code = 200
    /\ bookings' = [bookings EXCEPT ![b] = SaveDoc(@, @, res)]
    /\ last' = Step(op, b, res.code, arg, res.code)

HandoverLifetime ==
    \E b \in BookingIds(bookings), body \in HandoverBodies :
        /\ OnBookingLifetime("handoverVehicle", b,
                             handoverVehicle(bookings[b], body.odometerReading,
                                             body.fuelLevel, now), "")
        /\ UNCHANGED <<vehicles, now, tz, notifs, reqs>>

ReturnLifetime ==
    \E b \in BookingIds(bookings), body \in ReturnBodies :
        /\ OnBookingLifetime("returnVehicle", b,
                             returnVehicle(bookings[b], body, now), body)
        /\ UNCHANGED <<vehicles, now, tz, notifs, reqs>>

PaymentLifetime ==
    \E b \in BookingIds(bookings), paymentStatus \in PaymentStatusInputs,
       paymentAmount \in PaymentAmountInputs :
        /\ OnBookingLifetime("adminPayment", b,
                             adminPayment(bookings[b], paymentAmount, paymentStatus,
                                          "", now), "")
        /\ UNCHANGED <<vehicles, now, tz, notifs, reqs>>

NextLifetime ==
    \/ CreateManualBookingToReturn
    \/ HandoverLifetime
    \/ ReturnLifetime
    \/ PaymentLifetime

SpecLifetime == Init /\ [][NextLifetime]_vars

----------------------------------------------------------------------------
(* The properties *)

\* C3: a booking's status changes only along the edges of the transition
\* table, whichever endpoint performs the write
C3_TransitionEdges ==
    [][ \A b \in BookingIds(bookings) :
          LET allowed ==
                  CASE bookings[b].status = "pending" -> {"confirmed", "cancelled"}
                    [] bookings[b].status = "confirmed" -> {"handed_over", "cancelled"}
                    [] bookings[b].status = "handed_over" ->
                         {"in_use", "returned", "cancelled"}
                    [] bookings[b].status = "in_use" -> {"returned", "overdue"}
                    [] bookings[b].status = "overdue" -> {"returned", "completed"}
                    [] bookings[b].status = "returned" -> {"completed"}
                    [] OTHER -> {}
          IN  bookings'[b].status # bookings[b].status
                => bookings'[b].status \in allowed ]_vars

\* C4: a status-update request from any status S to any named target T outside
\* S's allowed set (T = S and unknown names included) is rejected as an invalid
\* transition and leaves every field of the booking as it was
C4_TransitionClosure ==
    \A b \in BookingIds(bookings), T \in StatusInputs \ {""} :
        LET S == bookings[b].status
            allowed ==
                CASE S = "pending" -> {"confirmed", "cancelled"}
                  [] S = "confirmed" -> {"handed_over", "cancelled"}
                  [] S = "handed_over" -> {"in_use", "returned", "cancelled"}
                  [] S = "in_use" -> {"returned", "overdue"}
                  [] S = "overdue" -> {"returned", "completed"}
                  [] S = "returned" -> {"completed"}
                  [] OTHER -> {}
            res == updateStatus(bookings[b], T, now)
        IN  T \notin allowed
              => /\ res.code = 400
                 /\ res.err = "Invalid status transition"
                 /\ SaveDoc(bookings[b], bookings[b], res) = bookings[b]

\* a completed booking, on which a request for completed or for an unknown
\* status is answered 400
C4_Witness ==
    \E b \in BookingIds(bookings) :
        /\ bookings[b].status = "completed"
        /\ updateStatus(bookings[b], "completed", now).code = 400
        /\ updateStatus(bookings[b], "archived", now).code = 400

\* C5: once a booking is cancelled or completed no request of any endpoint
\* changes its status or any other field
C5_TerminalStates ==
    [][ \A b \in BookingIds(bookings) :
          bookings[b].status \in {"cancelled", "completed"}
            => /\ bookings'[b].status = bookings[b].status
               /\ last'.op # "notificationDone" => bookings'[b] = bookings[b] ]_vars

\* C6: a cancel request succeeds only on a booking that is pending, confirmed
\* or handed_over
C6_CancelOnlyEarly ==
    [][ (bookings' # bookings /\ last'.op = "cancelBooking")
          => bookings[last'.b].status \in {"pending", "confirmed", "handed_over"} ]_vars

\* C8: a handover request succeeds only on a confirmed booking, and then the
\* status becomes handed_over and the odometer, fuel level and time of the
\* handover are recorded; on any other status it is answered 400 and writes
\* nothing
C8_Handover ==
    /\ [](\A b \in BookingIds(bookings), body \in HandoverBodies :
            LET res == handoverVehicle(bookings[b], body.odometerReading,
                                       body.fuelLevel, now)
            IN  bookings[b].status # "confirmed"
                  => /\ res.code = 400
                     /\ SaveDoc(bookings[b], bookings[b], res) = bookings[b])
    /\ [][ (bookings' # bookings /\ last'.op = "handoverVehicle")
             => LET b == last'.b
                IN  /\ bookings[b].status = "confirmed"
                    /\ bookings'[b].status = "handed_over"
                    /\ \E body \in HandoverBodies :
                          bookings'[b].handoverData =
                              [odometerReading |->
                                   IF body.odometerReading = NoValue THEN 0
                                   ELSE body.odometerReading,
                               fuelLevel |->
                                   IF body.fuelLevel = "" THEN "full" ELSE body.fuelLevel,
                               handedOverAt |-> now] ]_vars

\* a booking handed over with the readings of the request
C8_Witness ==
    /\ last.op = "handoverVehicle"
    /\ bookings[last.b].status = "handed_over"
    /\ bookings[last.b].handoverData.odometerReading = 1000
    /\ bookings[last.b].handoverData.handedOverAt = now

\* C9: a return request succeeds only on a booking that is handed_over, in_use
\* or overdue, and then the status becomes returned, the return is recorded and
\* totalAmount grows by exactly the surcharge total the handler computed; on any
\* other status it is answered 400 and writes nothing, totalAmount included
C9_Return ==
    /\ [](\A b \in BookingIds(bookings), body \in ReturnBodies :
            LET res == returnVehicle(bookings[b], body, now)
            IN  bookings[b].status \notin {"handed_over", "in_use", "overdue"}
                  => /\ res.code = 400
                     /\ SaveDoc(bookings[b], bookings[b], res) = bookings[b])
    /\ [][ (bookings' # bookings /\ last'.op = "returnVehicle")
             => LET b == last'.b
                    total == bookings'[b].returnData.totalAdditionalCharges
                IN  /\ bookings[b].status \in {"handed_over", "in_use", "overdue"}
                    /\ bookings'[b].status = "returned"
                    /\ bookings'[b].returnData.returnedAt = now
                    /\ total = SumAmounts(bookings'[b].returnData.additionalCharges)
                    /\ bookings'[b].totalAmount = bookings[b].totalAmount + total ]_vars

\* a booking returned with surcharges added to its total
C9_Witness ==
    /\ last.op = "returnVehicle"
    /\ bookings[last.b].status = "returned"
    /\ bookings[last.b].returnData.totalAdditionalCharges > 0
    /\ bookings[last.b].totalAmount > 1000

\* C10: a complete request succeeds only on a returned booking; on any other
\* status it is answered 400, writes nothing to the booking, and the vehicle
\* record is written by no step but a successful completion
C10_Complete ==
    /\ [](\A b \in BookingIds(bookings) :
            LET res == completeBooking(bookings[b], now)
            IN  bookings[b].status # "returned"
                  => /\ res.code = 400
                     /\ SaveDoc(bookings[b], bookings[b], res) = bookings[b])
    /\ [][ /\ (bookings' # bookings /\ last'.op = "completeBooking")
              => /\ bookings[last'.b].status = "returned"
                 /\ bookings'[last'.b].status = "completed"
           /\ vehicles' # vehicles
              => /\ bookings' # bookings
                 /\ last'.op = "completeBooking"
                 /\ bookings[last'.b].status = "returned" ]_vars

\* a booking completed from returned, its vehicle marked available
C10_Witness ==
    /\ last.op = "completeBooking"
    /\ bookings[last.b].status = "completed"
    /\ vehicles[bookings[last.b].vehicleId].isAvailable

\* C2: for every vehicle and every day, the bookings of the vehicle that are
\* confirmed, handed_over, in_use or overdue and whose range covers the day are
\* no more than the vehicle's quantity
C2_Capacity ==
    \A v \in VehicleIds, day \in 0 .. 3 :
        Cardinality({ b \in BookingIds(bookings) :
                        /\ bookings[b].vehicleId = v
                        /\ bookings[b].status \in ActiveStatuses
                        /\ ISODay(bookings[b].pickupDate) <= day
                        /\ day <= ISODay(bookings[b].dropoffDate) })
          <= vehicles[v].quantity

\* C1: a booking request that is written found a free unit for its range in
\* the store as it is when the booking is written, so of two requests in flight
\* for the last unit only one is written
C1_LastUnit ==
    (last.op \in CreateOps /\ last.code = 200) => last.recheck = 200

\* C7: a lifecycle request that is written found its precondition true of the
\* booking as it is when the change is written, so of two requests in flight
\* whose preconditions exclude each other only one is written
C7_AtomicTransition ==
    (last.op \in InFlightOps \ CreateOps /\ last.code = 200) => last.recheck = 200

\* C11: the status history only grows at its end: every step keeps the
\* entries it found, a step that changes the status adds exactly one entry,
\* for the new status, and the timestamps of the entries never decrease along
\* the list
C11_AppendOnly ==
    [][ \A b \in BookingIds(bookings) :
          LET h == bookings[b].statusHistory
              g == bookings'[b].statusHistory
          IN  /\ Len(g) >= Len(h)
              /\ SubSeq(g, 1, Len(h)) = h
              /\ bookings'[b].status # bookings[b].status
                   => /\ Len(g) = Len(h) + 1
                      /\ g[Len(g)].status = bookings'[b].status
              /\ \A i \in 1 .. Len(g) - 1 : g[i].timestamp <= g[i + 1].timestamp ]_vars

\* C12: for a stored vehicle, checkVehicleAvailability answers bookedQuantity =
\* the largest number, over the days of the query range, of active bookings of
\* the vehicle whose range contains the day, availableQuantity = the quantity
\* less that number and not below 0, and available = (availableQuantity > 0)
C12_MaxOccupancy ==
    (last.op = "checkVehicleAvailability" /\ last.vehicleId \in DOMAIN vehicles
       /\ last.excludeBookingId = 0)
      => LET day(t) == (t + tz) \div TicksPerDay
             occupancy(d) ==
                 Cardinality({ b \in BookingIds(bookings) :
                     /\ bookings[b].vehicleId = last.vehicleId
                     /\ bookings[b].status \in
                            {"confirmed", "handed_over", "in_use", "overdue"}
                     /\ day(bookings[b].pickupDate) <= d
                     /\ d <= day(bookings[b].dropoffDate) })
             days == day(last.startDate) .. day(last.endDate)
             booked == CHOOSE m \in { occupancy(d) : d \in days } :
                           \A d \in days : occupancy(d) <= m
             Q == vehicles[last.vehicleId].quantity
         IN  /\ last.result.bookedQuantity = booked
             /\ last.result.availableQuantity = (IF Q > booked THEN Q - booked ELSE 0)
             /\ last.result.available = (Q > booked)

\* C13: the answer of an availability query is the answer the same query gets
\* on the store without its pending and cancelled bookings, whatever their
\* dates: they never make fewer units available
C13_Exclusion ==
    LET kept == SelectSeq(bookings,
                          LAMBDA d : d.status \notin {"pending", "cancelled"})
    IN  /\ (last.op = "checkVehicleAvailability" /\ last.excludeBookingId = 0)
             => last.result.availableQuantity
                  = checkVehicleAvailability(vehicles, kept, tz, last.vehicleId,
                                             last.startDate, last.endDate,
                                             0).availableQuantity
        /\ last.op = "routerCheckAvailability"
             => last.result.isAvailable
                  = routerCheckVehicleAvailability(kept, last.vehicleId, last.startDate,
                                                   last.endDate).isAvailable

\* C14: a fleet listing for a date range holds a vehicle exactly when
\* checkVehicleAvailability answers available for that vehicle and range
C14_CallSitesAgree ==
    (last.op \in {"getAvailableVehicles", "postVehiclesAvailability"}
       /\ last.result.code = 200)
      => \A v \in VehicleIds :
            (v \in last.result.data)
              <=> checkVehicleAvailability(vehicles, bookings, tz, v, last.startDate,
                                           last.endDate, 0).available

\* C15: every stored booking has its pickup date before its dropoff date: a
\* creation request with pickup at or after dropoff stores nothing
C15_DateOrder ==
    \A b \in BookingIds(bookings) : bookings[b].pickupDate < bookings[b].dropoffDate

\* C16: a verify-payment request whose signature does not match is answered
\* with an error and leaves the booking as it was: no field is changed, no
\* history entry is pushed, and a notification of that endpoint is dispatched
\* only by a request that was answered with success and saved the booking
C16_SignatureMismatch ==
    /\ [](\A b \in BookingIds(bookings), paymentId \in PaymentIdInputs :
            LET res == verifyPayment(bookings[b], paymentId, FALSE, now)
            IN  /\ res.code = 400
                /\ res.doc = bookings[b]
                /\ res.push = <<>>
                /\ SaveDoc(bookings[b], bookings[b], res) = bookings[b])
    /\ [][\A n \in notifs' \ notifs :
            n.path = "verifyPayment"
              => /\ last'.op = "verifyPayment" /\ last'.b = n.b /\ last'.code = 200
                 /\ bookings'[n.b].status = "confirmed"
                 /\ bookings'[n.b].paymentStatus = "paid"]_vars

\* a pending booking with no notification under way, on which a request with
\* a mismatching signature is answered "Payment verification failed"
C16_Witness ==
    \E b \in BookingIds(bookings) :
        /\ bookings[b].status = "pending"
        /\ bookings[b].paymentStatus = "pending"
        /\ notifs = {}
        /\ verifyPayment(bookings[b], "pay_1", FALSE, now).err
             = "Payment verification failed"

\* C17: a payment confirmation endpoint (verify-payment, confirm-payment)
\* writes status confirmed / paymentStatus paid to a booking only on a request
\* whose signature matches
C17_SignatureRequired ==
    [][(bookings' # bookings /\ last'.op \in {"verifyPayment", "confirmPayment"})
         => last'.arg = "valid"]_vars

\* C18: a notification is dispatched only by a confirmation that has saved
\* status confirmed / paymentStatus paid with its history entry and is answered
\* with success; the callback of the notification, whatever its outcome,
\* leaves status, paymentStatus and statusHistory of the booking as they are
C18_ConfirmThenNotify ==
    /\ [][\A n \in notifs' \ notifs :
            /\ last'.op = n.path /\ last'.b = n.b /\ last'.code = 200
            /\ bookings'[n.b].status = "confirmed"
            /\ bookings'[n.b].paymentStatus = "paid"
            /\ bookings'[n.b].statusHistory # <<>>
            /\ bookings'[n.b].statusHistory[Len(bookings'[n.b].statusHistory)].status
                 = "confirmed"]_vars
    /\ [][\A n \in notifs \ notifs' :
            /\ bookings'[n.b].status = bookings[n.b].status
            /\ bookings'[n.b].paymentStatus = bookings[n.b].paymentStatus
            /\ bookings'[n.b].statusHistory = bookings[n.b].statusHistory]_vars

\* a booking still confirmed and paid after the notification of its verified
\* payment was rejected
C18_Witness ==
    /\ last.op = "notificationDone"
    /\ last.arg = "reject"
    /\ bookings[last.b].status = "confirmed"
    /\ bookings[last.b].paymentStatus = "paid"
    /\ bookings[last.b].notificationsStatus = "failed"

\* C19: a booking added to the store by a creation request, public or manual,
\* has status pending
C19_StartsPending ==
    [][Len(bookings') = Len(bookings) + 1
         => /\ last'.op \in {"createBooking", "createManualBooking"}
            /\ bookings'[Len(bookings')].status = "pending"]_vars

\* C19 as amended: a booking added by the public creation has status pending
\* and an empty history; a booking added by the manual creation has status
\* confirmed when it is created with paymentStatus paid and pending otherwise,
\* and its history is the one entry of that status
C19_InitialStatus ==
    [][Len(bookings') = Len(bookings) + 1
         => LET d == bookings'[Len(bookings')]
            IN  \/ /\ last'.op = "createBooking"
                   /\ d.status = "pending"
                   /\ d.statusHistory = <<>>
                \/ /\ last'.op = "createManualBooking"
                   /\ d.status = (IF d.paymentStatus = "paid" THEN "confirmed"
                                                              ELSE "pending")
                   /\ Len(d.statusHistory) = 1
                   /\ d.statusHistory[1].status = d.status]_vars

\* a manual booking created as paid, stored as confirmed
C19_Witness ==
    /\ last.op = "createManualBooking"
    /\ bookings[last.b].paymentStatus = "paid"
    /\ bookings[last.b].status = "confirmed"
    /\ Len(bookings[last.b].statusHistory) = 1

\* C20: when checkVehicleAvailability answers that no unit is free for the
\* range of a creation request, public or manual, the request is answered 400
\* with the availableQuantity of the check and the quantity of the vehicle in
\* the body; and a booking is added to the store only for a range for which
\* the check on the store before the request answered available
C20_Unavailable ==
    /\ [](\A body \in CreateBodies :
            body.vehicleId \in DOMAIN vehicles
              => LET chk == checkVehicleAvailability(
                               vehicles, bookings, tz, body.vehicleId,
                               SetHoursZero(body.pickupDate, tz),
                               SetHoursZero(body.dropoffDate, tz), 0)
                     res == createBooking(vehicles, bookings, tz, body)
                 IN  ~ chk.available
                       => /\ res.code = 400
                          /\ res.push = <<>>
                          /\ res.body.availableQuantity = chk.availableQuantity
                          /\ res.body.vehicleQuantity = vehicles[body.vehicleId].quantity)
    /\ [](\A body \in ManualBodies :
            (body.vehicleId \in DOMAIN vehicles /\ body.pickupDate # NoValue
               /\ body.dropoffDate # NoValue /\ body.pickupDate < body.dropoffDate)
              => LET chk == checkVehicleAvailability(
                               vehicles, bookings, tz, body.vehicleId,
                               body.pickupDate, body.dropoffDate, 0)
                     res == createManualBooking(vehicles, bookings, tz, body, now)
                 IN  ~ chk.available
                       => /\ res.code = 400
                          /\ res.push = <<>>
                          /\ res.body.availableQuantity = chk.availableQuantity
                          /\ res.body.vehicleQuantity = vehicles[body.vehicleId].quantity)
    /\ [][Len(bookings') = Len(bookings) + 1
            => LET d == bookings'[Len(bookings')]
               IN  checkVehicleAvailability(vehicles, bookings, tz, d.vehicleId,
                                            d.pickupDate, d.dropoffDate, 0).available]_vars

\* every unit of the vehicle is taken for the range of a creation request, and
\* the request is answered 400 with 0 available of the vehicle's quantity
C20_Witness ==
    \E body \in CreateBodies :
        /\ body.vehicleId \in DOMAIN vehicles
        /\ Len(bookings) >= vehicles[body.vehicleId].quantity
        /\ LET res == createBooking(vehicles, bookings, tz, body)
           IN  /\ res.code = 400
               /\ res.body.availableQuantity = 0
               /\ res.body.vehicleQuantity = vehicles[body.vehicleId].quantity
               /\ res.body.bookedQuantity = vehicles[body.vehicleId].quantity

C23_FuelShortfall ==
    [][(last'.op = "returnVehicle" /\ bookings' # bookings)
         => LET b == last'.b
                level == [empty |-> 0, quarter |-> 25, half |-> 50,
                          three_quarter |-> 75, full |-> 100]
                handover == bookings[b].handoverData.fuelLevel
                return == last'.arg.fuelLevel
                fuel == SelectSeq(bookings'[b].returnData.additionalCharges,
                                  LAMBDA c : c.type = "fuel_replacement")
            IN  (handover \in DOMAIN level /\ return \in DOMAIN level)
                  => IF level[return] < level[handover]
                     THEN /\ Len(fuel) = 1
                          /\ fuel[1].amount * 100
                               = (level[handover] - level[return]) * 4 * 500
                     ELSE fuel = <<>>]_vars

\* a vehicle handed over full and returned at a quarter, charged 1500 for fuel
C23_Witness ==
    /\ last.op = "returnVehicle"
    /\ bookings[last.b].handoverData.fuelLevel = "full"
    /\ last.arg.fuelLevel = "quarter"
    /\ \E i \in DOMAIN bookings[last.b].returnData.additionalCharges :
          bookings[last.b].returnData.additionalCharges[i]
            = [type |-> "fuel_replacement", amount |-> 1500]

\* C24: the charges of a return hold one late charge exactly when the return
\* is made after the dropoff date of the booking; its amount is 200 for every
\* hour since the dropoff date, an hour that has begun counting as an hour
C24_LateReturn ==
    [][(last'.op = "returnVehicle" /\ bookings' # bookings)
         => LET b == last'.b
                lateBy == now - bookings[b].dropoffDate
                hoursLate == CHOOSE h \in 0 .. Max(lateBy, 0) :
                                /\ h * TicksPerHour >= lateBy
                                /\ (h - 1) * TicksPerHour < lateBy
                late == SelectSeq(bookings'[b].returnData.additionalCharges,
                                  LAMBDA c : c.type = "late_return")
            IN  IF now > bookings[b].dropoffDate
                THEN late = << [type |-> "late_return", amount |-> hoursLate * 200] >>
                ELSE late = <<>>]_vars

\* a return half an hour after the dropoff date, charged for one hour
C24_Witness ==
    /\ last.op = "returnVehicle"
    /\ bookings[last.b].returnData.returnedAt = bookings[last.b].dropoffDate + 1
    /\ \E i \in DOMAIN bookings[last.b].returnData.additionalCharges :
          bookings[last.b].returnData.additionalCharges[i]
            = [type |-> "late_return", amount |-> 200]

\* C25: when a vehicle is returned with an odometer reading, the charges of
\* the return hold one charge of 10 for every kilometre driven beyond 300 for
\* each day of the rental, and no kilometre charge when no kilometre is beyond
C25_ExcessDistance ==
    [][(last'.op = "returnVehicle" /\ bookings' # bookings)
         => LET b == last'.b
                d == bookings[b]
                totalRentalDays == CeilDiv(d.dropoffDate - d.pickupDate, TicksPerDay)
                allowedKm == totalRentalDays * 300
                driven == last'.arg.odometerReading - d.handoverData.odometerReading
                extraKm == Max(0, driven - allowedKm)
                km == SelectSeq(bookings'[b].returnData.additionalCharges,
                                LAMBDA c : c.type = "extra_kilometers")
            IN  last'.arg.odometerReading # NoValue
                  => IF extraKm > 0
                     THEN km = << [type |-> "extra_kilometers", amount |-> extraKm * 10] >>
                     ELSE km = <<>>]_vars

\* C26: a return that is not late, brings the vehicle back with no less fuel
\* than at handover, with no kilometre beyond 300 for each day of the rental
\* and with no damage named in the condition notes records a surcharge total
\* of 0 and leaves totalAmount as it was
C26_NoSurcharge ==
    [][(last'.op = "returnVehicle" /\ bookings' # bookings)
         => LET b == last'.b
                d == bookings[b]
                body == last'.arg
                level == [empty |-> 0, quarter |-> 25, half |-> 50,
                          three_quarter |-> 75, full |-> 100]
                totalRentalDays == CeilDiv(d.dropoffDate - d.pickupDate, TicksPerDay)
                notLate == now <= d.dropoffDate
                noShortfall ==
                    \/ body.fuelLevel = ""
                    \/ level[body.fuelLevel] >= level[d.handoverData.fuelLevel]
                noExcessKm ==
                    \/ body.odometerReading = NoValue
                    \/ body.odometerReading - d.handoverData.odometerReading
                         <= totalRentalDays * 300
                noDamage == body.conditionNotes \notin {"Minor DAMAGE"}
            IN  (notLate /\ noShortfall /\ noExcessKm /\ noDamage)
                  => /\ bookings'[b].returnData.totalAdditionalCharges = 0
                     /\ bookings'[b].totalAmount = d.totalAmount]_vars

\* C27: for the query that was answered, the same query on the store with one
\* more active booking of the vehicle returns no greater availableQuantity
\* when the booking overlaps the range of the query, and the same
\* availableQuantity when it does not
C27_Monotone ==
    (last.op = "checkVehicleAvailability" /\ last.excludeBookingId = 0
       /\ last.vehicleId \in DOMAIN vehicles)
      => \A d \in AvailBookings :
            d.status \in {"confirmed", "handed_over", "in_use", "overdue"}
              => LET more == checkVehicleAvailability(
                                vehicles, Append(bookings, d), tz, last.vehicleId,
                                last.startDate, last.endDate, 0)
                 IN  IF d.pickupDate <= last.endDate /\ d.dropoffDate >= last.startDate
                     THEN more.availableQuantity <= last.result.availableQuantity
                     ELSE more.availableQuantity = last.result.availableQuantity

\* a query answered with a unit free, which one more overlapping active
\* booking would leave with fewer, and which a booking of other days leaves alone
C27_Witness ==
    /\ last.op = "checkVehicleAvailability"
    /\ last.excludeBookingId = 0
    /\ last.vehicleId \in DOMAIN vehicles
    /\ last.result.bookedQuantity > 0
    /\ \E d \in AvailBookings :
          /\ d.status = "confirmed"
          /\ d.pickupDate <= last.endDate /\ d.dropoffDate >= last.startDate
          /\ checkVehicleAvailability(vehicles, Append(bookings, d), tz, last.vehicleId,
                                      last.startDate, last.endDate, 0).availableQuantity
               < last.result.availableQuantity
    /\ \E d \in AvailBookings :
          /\ d.status = "confirmed"
          /\ d.pickupDate > last.endDate

\* C28: a query for which the filter selects no booking is answered by the
\* short-circuit with the available, availableQuantity, vehicleQuantity and
\* bookedQuantity that the day-by-day path returns for it
C28_ShortCircuit ==
    (/\ last.op = "checkVehicleAvailability"
     /\ last.vehicleId \in DOMAIN vehicles
     /\ OverlappingBookings(bookings, last.vehicleId, last.startDate, last.endDate,
                            last.excludeBookingId) = {})
      => /\ LET general == dayByDay(OrElse(vehicles[last.vehicleId].quantity, 1),
                                    bookings, {}, last.startDate, last.endDate, tz)
            IN  /\ last.result.available = general.available
                /\ last.result.availableQuantity = general.availableQuantity
                /\ last.result.vehicleQuantity = general.vehicleQuantity
                /\ last.result.bookedQuantity = general.bookedQuantity
         \* and so for a vehicle stored with no quantity or with quantity 0
         /\ \A q \in {NoValue, 0} :
               LET short == checkVehicleAvailability(
                               [vehicles EXCEPT ![last.vehicleId].quantity = q],
                               bookings, tz, last.vehicleId, last.startDate,
                               last.endDate, last.excludeBookingId)
                   general == dayByDay(1, bookings, {}, last.startDate, last.endDate, tz)
               IN  /\ short.available = general.available
                   /\ short.availableQuantity = general.availableQuantity
                   /\ short.vehicleQuantity = general.vehicleQuantity
                   /\ short.bookedQuantity = general.bookedQuantity

\* a query on a store that holds bookings of the vehicle, none of them active
\* in the range, answered by the short-circuit with every unit free
C28_Witness ==
    /\ last.op = "checkVehicleAvailability"
    /\ last.vehicleId \in DOMAIN vehicles
    /\ bookings # <<>>
    /\ OverlappingBookings(bookings, last.vehicleId, last.startDate, last.endDate,
                           last.excludeBookingId) = {}
    /\ last.result.availableQuantity = MaxQuantity
    /\ last.result.bookedQuantity = 0

\* C29: in a query of the availability of a vehicle, every calendar day from
\* the day of the start instant to the day of the end instant has a count,
\* and a booking that the overlap filter selects is counted on at least one
\* of these days
C29_EveryDayCounted ==
    last.op = "getVehicleAvailability"
      => /\ DateKeys(last.startDate, last.endDate)
              = ISODay(last.startDate) .. ISODay(last.endDate)
         /\ OverlappingBookings(bookings, last.vehicleId, last.startDate,
                                last.endDate, 0) # {}
              => last.result.bookedQuantity >= 1

\* C30: when on some day of the query range more active bookings of the
\* vehicle contain the day than the vehicle has units, checkVehicleAvailability
\* answers bookedQuantity = the largest such number of a day of the range,
\* above vehicleQuantity, availableQuantity = 0 and available = false
C30_ReportsOverbooking ==
    (last.op = "checkVehicleAvailability" /\ last.vehicleId \in DOMAIN vehicles
       /\ last.excludeBookingId = 0)
      => LET localDay(t) == (t + tz) \div TicksPerDay
             covering(d) ==
                 { b \in BookingIds(bookings) :
                     /\ bookings[b].vehicleId = last.vehicleId
                     /\ bookings[b].status \in ActiveStatuses
                     /\ localDay(bookings[b].pickupDate) <= d
                     /\ d <= localDay(bookings[b].dropoffDate) }
             days == localDay(last.startDate) .. localDay(last.endDate)
             worst == CHOOSE d \in days :
                         \A e \in days : Cardinality(covering(e)) <= Cardinality(covering(d))
         IN  Cardinality(covering(worst)) > vehicles[last.vehicleId].quantity
               => /\ last.result.bookedQuantity = Cardinality(covering(worst))
                  /\ last.result.bookedQuantity > last.result.vehicleQuantity
                  /\ last.result.availableQuantity = 0
                  /\ last.result.available = FALSE

\* C31: a query that names a stored booking as excludeBookingId is answered as
\* the same query with no exclusion is answered on the store without that
\* booking
C31_Exclusion ==
    (/\ last.op = "checkVehicleAvailability"
     /\ last.vehicleId \in DOMAIN vehicles
     /\ last.excludeBookingId \in BookingIds(bookings))
      => LET b == last.excludeBookingId
             without == SubSeq(bookings, 1, b - 1)
                          \o SubSeq(bookings, b + 1, Len(bookings))
         IN  last.result = checkVehicleAvailability(vehicles, without, tz, last.vehicleId,
                                                    last.startDate, last.endDate, 0)

\* a query that leaves out an active booking of its range and so finds a unit
\* more than the query with no exclusion
C31_Witness ==
    /\ last.op = "checkVehicleAvailability"
    /\ last.vehicleId \in DOMAIN vehicles
    /\ last.excludeBookingId \in BookingIds(bookings)
    /\ bookings[last.excludeBookingId].status = "confirmed"
    /\ Len(bookings) = 2
    /\ last.result.availableQuantity
         > checkVehicleAvailability(vehicles, bookings, tz, last.vehicleId,
                                    last.startDate, last.endDate, 0).availableQuantity

C33_OneEntryPerRule ==
    [][(last'.op = "returnVehicle" /\ bookings' # bookings)
         => LET b == last'.b
                d == bookings[b]
                body == last'.arg
                level == [empty |-> 0, quarter |-> 25, half |-> 50,
                          three_quarter |-> 75, full |-> 100]
                totalRentalDays == CeilDiv(d.dropoffDate - d.pickupDate, TicksPerDay)
                entries == bookings'[b].returnData.additionalCharges
                Added(type) ==
                    Len(SelectSeq(entries, LAMBDA c : c.type = type))
                      - Len(SelectSeq(body.additionalCharges, LAMBDA c : c.type = type))
                One(applies) == IF applies THEN 1 ELSE 0
            IN  /\ (body.fuelLevel \in DOMAIN level
                      /\ d.handoverData.fuelLevel \in DOMAIN level)
                     => Added("fuel_replacement")
                          = One(level[body.fuelLevel] < level[d.handoverData.fuelLevel])
                /\ Added("late_return") = One(now > d.dropoffDate)
                /\ Added("extra_kilometers")
                     = One(/\ body.odometerReading # NoValue
                           /\ body.odometerReading - d.handoverData.odometerReading
                                > totalRentalDays * 300)
                /\ Added("damage_charge") = One(body.conditionNotes = "Minor DAMAGE")
                /\ bookings'[b].returnData.totalAdditionalCharges
                     = SumAmounts(entries)]_vars


\* C34: every amount among the charges a return records is 0 or more, the
\* surcharge total it records is 0 or more, and the booking's totalAmount
\* after a return is not below what it was before, whatever request body
\* the return accepted
C34_NonNegative ==
    [][(last'.op = "returnVehicle" /\ bookings' # bookings)
         => LET b == last'.b
                entries == bookings'[b].returnData.additionalCharges
            IN  /\ \A i \in DOMAIN entries : entries[i].amount >= 0
                /\ bookings'[b].returnData.totalAdditionalCharges >= 0
                /\ bookings'[b].totalAmount >= bookings[b].totalAmount]_vars


\* C35: over the life of a booking, whatever requests are made, the return
\* request succeeds at most once: the status history never holds two entries
\* written by a return, so the surcharges of a return are added to
\* totalAmount at most once
C35_ReturnedOnce ==
    \A b \in BookingIds(bookings) :
        Len(SelectSeq(bookings[b].statusHistory,
                      LAMBDA h : h.status = "returned"
                                   /\ h.additionalCharges # NoValue)) <= 1


\* C36: every booking that is handed_over, in_use, overdue or returned holds
\* the snapshot of a handover: handoverData.handedOverAt is set
C36_HandoverSnapshot ==
    \A b \in BookingIds(bookings) :
        bookings[b].status \in {"handed_over", "in_use", "overdue", "returned"}
          => bookings[b].handoverData.handedOverAt # NoValue


\* C37: the callback that runs when the notifications of a confirmed booking
\* are done changes nothing of the booking but notificationsSent,
\* notificationsTimestamp and notificationsStatus: what other requests wrote
\* to the status, the status history or the amounts since the confirmation
\* was saved is still there after the callback
C37_CallbackWritesOnlyNotification ==
    [][(last'.op = "notificationDone" /\ notifs' # notifs)
         => \A f \in DOMAIN bookings[last'.b] \
                       {"notificationsSent", "notificationsTimestamp",
                        "notificationsStatus"} :
               bookings'[last'.b][f] = bookings[last'.b][f]]_vars

\* a callback that recorded the notifications as sent on a booking that had
\* been handed over since its payment was confirmed
C37_Witness ==
    /\ last.op = "notificationDone"
    /\ last.arg = "success"
    /\ bookings[last.b].notificationsStatus = "sent"
    /\ bookings[last.b].status = "handed_over"
    /\ bookings[last.b].handoverData.handedOverAt # NoValue


\* C38: no request on a booking changes the quantity of a vehicle; the one
\* change a request on a booking makes to a vehicle is the completion setting
\* isAvailable of the booking's vehicle to true; and what
\* checkVehicleAvailability answers is the same whatever isAvailable is
C38_VehicleFrame ==
    /\ [](\A v \in VehicleIds, isAvailable \in BOOLEAN :
             checkVehicleAvailability([vehicles EXCEPT ![v].isAvailable = isAvailable],
                                      bookings, tz, v, Day(1), Day(2), 0)
               = checkVehicleAvailability(vehicles, bookings, tz, v, Day(1), Day(2), 0))
    /\ [][ /\ \A v \in VehicleIds : vehicles'[v].quantity = vehicles[v].quantity
           /\ vehicles' # vehicles
                => /\ last'.op = "completeBooking"
                   /\ bookings'[last'.b].status = "completed"
                   /\ vehicles' = [vehicles EXCEPT
                                     ![bookings[last'.b].vehicleId].isAvailable = TRUE] ]_vars

\* a completed booking whose vehicle the completion has made available, with
\* the quantity it had, and a unit of it free again on the booking's days
C38_Witness ==
    /\ last.op = "completeBooking"
    /\ bookings[last.b].status = "completed"
    /\ bookings[last.b].vehicleId \in VehicleIds
    /\ vehicles[bookings[last.b].vehicleId].isAvailable
    /\ vehicles[bookings[last.b].vehicleId].quantity = 1
    /\ checkVehicleAvailability(vehicles, bookings, tz, bookings[last.b].vehicleId,
                                Day(1), Day(2), 0).available


\* C39: for the fuel level of a handover and the fuel level of a return,
\* calculateFuelCharge(startLevel, endLevel) is positive exactly when the
\* return handler records a fuel charge, which is exactly when the return
\* level is below the handover level, and is 0 otherwise
C39_HelperAgrees ==
    (/\ last.op = "returnVehicle"
     /\ last.arg.fuelLevel \in FuelLevelInputs
     /\ bookings[last.b].handoverData.fuelLevel \in FuelLevelInputs)
      => LET level == [empty |-> 0, quarter |-> 25, half |-> 50,
                       three_quarter |-> 75, full |-> 100]
             startLevel == bookings[last.b].handoverData.fuelLevel
             endLevel == last.arg.fuelLevel
             inline == SelectSeq(bookings[last.b].returnData.additionalCharges,
                                 LAMBDA c : c.type = "fuel_replacement")
             charge == calculateFuelCharge(startLevel, endLevel)
         IN  /\ charge >= 0
             /\ charge > 0 <=> level[endLevel] < level[startLevel]
             /\ charge > 0 <=> inline # <<>>

====
